---- MODULE Spec2Model ----
(***************************************************************************)
(* Model of src/etl/pipeline.py: the Raw Store and Curated Store CSV files *)
(* and the operations extract, transform, load, run_pipeline and           *)
(* append_raw_row, called from the sessions of src/app.py.                 *)
(*                                                                         *)
(* Text (a str value, a CSV field) is a sequence of one-character strings. *)
(* A DataFrame cell is a tagged value: a str, the missing value <NA>/NaN,  *)
(* or a Python/numpy integer.  A DataFrame is a record of its column       *)
(* labels (in order) and its rows (in order), each row a function from     *)
(* column label to cell.  A file is absent, or holds a header line and     *)
(* data lines; a file that exists with no header line is a zero-byte file. *)
(***************************************************************************)
EXTENDS Integers, Sequences, FiniteSets, TLC

VARIABLES
    rawFile,      \* the Raw Store file (paths.raw_csv)
    curatedFile,  \* the Curated Store file (paths.curated_csv)
    pc,           \* per session: where its current call stands
    arg,          \* per session: the row handed to append_raw_row
    buf,          \* per session: what the call holds between its file operations
    ret,          \* per session: how its last call ended ("none": it returned)
    log,          \* the rows handed to append_raw_row, in call order
    done,         \* the number of append_raw_row calls that returned
    overlap,      \* whether two calls were ever in progress at once
    seen,         \* the run_pipeline calls that ended: input, output, result
    calls,        \* the number of calls started
    phase,        \* the single-call specifications: "input", then "done"
    out           \* the single-call specifications: what the call returned

vars ==
    <<rawFile, curatedFile, pc, arg, buf, ret, log, done, overlap, seen, calls, phase, out>>

sysVars == <<pc, arg, buf, ret, log, done, overlap, seen, calls>>

\* ------------------------------------------------------------------ bounds

\* Most rows of a table handed to transform, most data lines of a file
\* handed to extract.
MaxRows == 3

\* Most calls (append_raw_row or run_pipeline) started by the two sessions.
MaxCalls == 3

\* Most calls made one after the other.
MaxSeqCalls == 5

\* ------------------------------------------------------------- text, cells

REQUIRED_COLUMNS ==
    <<"timestamp", "turma", "aluno", "bloco", "question_id", "pergunta",
      "tipo", "resposta_aluno", "gabarito", "acertou">>

StripColumns ==
    <<"turma", "aluno", "bloco", "question_id", "pergunta", "tipo",
      "resposta_aluno", "gabarito">>

Range(s) == {s[i] : i \in 1..Len(s)}

Str(s) == [k |-> "str", s |-> s, n |-> 0]

NA == [k |-> "na", s |-> <<>>, n |-> 0]

IntCell(n) == [k |-> "int", s |-> <<>>, n |-> n]

Digits == <<"0", "1", "2", "3", "4", "5", "6", "7", "8", "9">>

IsDigit(c) == c \in Range(Digits)

DigitVal(c) == (CHOOSE i \in 1..10 : Digits[i] = c) - 1

\* Code points of the characters the model draws text from.
CharCode(c) ==
    IF IsDigit(c) THEN 48 + DigitVal(c)
    ELSE CASE c = " " -> 32
           [] c = "a" -> 97
           [] c = "b" -> 98
           [] c = "x" -> 120

\* str.isspace() of one character.
IsSpace(c) == c = " "

RECURSIVE LStrip(_)
LStrip(s) ==
    IF s # <<>> /\ IsSpace(Head(s)) THEN LStrip(Tail(s)) ELSE s

RECURSIVE RStrip(_)
RStrip(s) ==
    IF s # <<>> /\ IsSpace(s[Len(s)]) THEN RStrip(SubSeq(s, 1, Len(s) - 1)) ELSE s

\* str.strip()
Strip(s) == RStrip(LStrip(s))

\* Python's str comparison: by code point, a proper prefix first.
RECURSIVE StrLess(_, _)
StrLess(a, b) ==
    IF b = <<>> THEN FALSE
    ELSE IF a = <<>> THEN TRUE
    ELSE IF CharCode(Head(a)) # CharCode(Head(b))
         THEN CharCode(Head(a)) < CharCode(Head(b))
    ELSE StrLess(Tail(a), Tail(b))

\* str(n) of a non-negative integer, as to_csv writes it.
RECURSIVE FormatInt(_)
FormatInt(n) ==
    IF n < 10 THEN <<Digits[n + 1]>>
    ELSE FormatInt(n \div 10) \o <<Digits[(n % 10) + 1]>>

\* The digits of s read as a decimal number, most significant first.
RECURSIVE ParseDigits(_, _)
ParseDigits(s, acc) ==
    IF s = <<>> THEN acc ELSE ParseDigits(Tail(s), 10 * acc + DigitVal(Head(s)))

\* pd.to_numeric(..., errors="coerce") of one cell: a number, or NaN for a
\* missing value, the empty string and text that is no number.  Text is
\* drawn from unsigned digit strings and non-numeric words.
ToNumeric(c) ==
    IF c.k = "int" THEN [nan |-> FALSE, v |-> c.n]
    ELSE IF c.k = "na" \/ c.s = <<>> THEN [nan |-> TRUE, v |-> 0]
    ELSE IF \A i \in 1..Len(c.s) : IsDigit(c.s[i])
         THEN [nan |-> FALSE, v |-> ParseDigits(c.s, 0)]
    ELSE [nan |-> TRUE, v |-> 0]

\* .fillna(0).astype("int64")
FillnaZeroInt(x) == IF x.nan THEN 0 ELSE x.v

\* .astype("string"): a str of every value but the missing one.
AsString(c) == IF c.k = "int" THEN Str(FormatInt(c.n)) ELSE c

\* .fillna("")
FillnaEmpty(c) == IF c.k = "na" THEN Str(<<>>) ELSE c

\* .str.strip()
StrStrip(c) == IF c.k = "str" THEN Str(Strip(c.s)) ELSE c

\* ------------------------------------------------------------ files, frames

AbsentFile == [exists |-> FALSE, header |-> <<>>, lines |-> <<>>]

\* A file just created or truncated by open(path, "w"): no bytes, no header.
ZeroByteFile == [exists |-> TRUE, header |-> <<>>, lines |-> <<>>]

ColumnIndex(header, c) == CHOOSE i \in 1..Len(header) : header[i] = c

\* pd.read_csv(raw_csv, dtype="string", keep_default_na=False): every field
\* is read as the str it is; a line shorter than the header leaves its
\* trailing columns missing.
ReadCsv(file) ==
    [columns |-> file.header,
     rows |-> [i \in 1..Len(file.lines) |->
                 [c \in Range(file.header) |->
                     IF ColumnIndex(file.header, c) <= Len(file.lines[i])
                     THEN Str(file.lines[i][ColumnIndex(file.header, c)])
                     ELSE NA]]]

\* One cell as to_csv writes it: a missing value as the empty field.
FormatCell(c) ==
    IF c.k = "na" THEN <<>>
    ELSE IF c.k = "int" THEN FormatInt(c.n)
    ELSE c.s

\* The bytes DataFrame.to_csv(path, index=False) writes: the header line and
\* one line per row.
ToCsv(df) ==
    [exists |-> TRUE,
     header |-> df.columns,
     lines |-> [i \in 1..Len(df.rows) |->
                  [j \in 1..Len(df.columns) |-> FormatCell(df.rows[i][df.columns[j]])]]]

\* pd.DataFrame(columns=REQUIRED_COLUMNS)
EmptyFrame == [columns |-> REQUIRED_COLUMNS, rows |-> <<>>]

\* Mutant: the synthesized column holds missing values, not empty strings.
AddColumnOfNA(df, col) ==
    [columns |-> df.columns \o <<col>>,
     rows |-> [i \in 1..Len(df.rows) |->
                 [c \in Range(df.columns) \cup {col} |->
                     IF c = col THEN NA ELSE df.rows[i][c]]]]

\* df[col] = ""
AddColumn(df, col) ==
    [columns |-> df.columns \o <<col>>,
     rows |-> [i \in 1..Len(df.rows) |->
                 [c \in Range(df.columns) \cup {col} |->
                     IF c = col THEN Str(<<>>) ELSE df.rows[i][c]]]]

\* for col in REQUIRED_COLUMNS: if col not in df.columns: df[col] = ""
RECURSIVE AddMissingColumns(_, _)
AddMissingColumns(df, i) ==
    IF i > Len(REQUIRED_COLUMNS) THEN df
    ELSE IF REQUIRED_COLUMNS[i] \in Range(df.columns)
         THEN AddMissingColumns(df, i + 1)
    ELSE AddMissingColumns(AddColumn(df, REQUIRED_COLUMNS[i]), i + 1)

\* df[cols]
SelectColumns(df, cols) ==
    [columns |-> cols,
     rows |-> [i \in 1..Len(df.rows) |-> [c \in Range(cols) |-> df.rows[i][c]]]]

\* Mutant: no test that the file exists, read_csv raises on a missing file.
ExtractUnchecked(file) ==
    IF ~file.exists THEN [err |-> "FileNotFoundError", df |-> EmptyFrame]
    ELSE IF file.header = <<>> THEN [err |-> "EmptyDataError", df |-> EmptyFrame]
    ELSE [err |-> "none",
          df |-> SelectColumns(AddMissingColumns(ReadCsv(file), 1), REQUIRED_COLUMNS)]

\* extract(raw_csv).  read_csv raises EmptyDataError on a file with no
\* header line.
Extract(file) ==
    IF ~file.exists THEN [err |-> "none", df |-> EmptyFrame]
    ELSE IF file.header = <<>> THEN [err |-> "EmptyDataError", df |-> EmptyFrame]
    ELSE [err |-> "none",
          df |-> SelectColumns(AddMissingColumns(ReadCsv(file), 1), REQUIRED_COLUMNS)]

\* ---------------------------------------------------------------- transform

\* df[col] = df[col].astype("string").fillna("").str.strip(), for the eight
\* text columns; timestamp and acertou are left as read.
CleanRow(r) ==
    [c \in DOMAIN r |->
        IF c \in Range(StripColumns) THEN StrStrip(FillnaEmpty(AsString(r[c])))
        ELSE r[c]]

\* df["acertou"] = pd.to_numeric(df["acertou"], errors="coerce").fillna(0).astype("int64")
CoerceAcertou(r) ==
    [r EXCEPT !["acertou"] = IntCell(FillnaZeroInt(ToNumeric(r["acertou"])))]

\* Mutant: the rows without aluno are not removed.
DropEmptyAlunoSkipped(rows) == rows

\* df[df["aluno"] != ""]
RECURSIVE DropEmptyAluno(_)
DropEmptyAluno(rows) ==
    IF rows = <<>> THEN <<>>
    ELSE IF Head(rows)["aluno"] # Str(<<>>)
         THEN <<Head(rows)>> \o DropEmptyAluno(Tail(rows))
    ELSE DropEmptyAluno(Tail(rows))

SameKey(a, b, subset) == \A i \in 1..Len(subset) : a[subset[i]] = b[subset[i]]

\* Mutant: keep="first", a row stays when no earlier row has its key.
RECURSIVE DropDuplicatesFirst(_, _)
DropDuplicatesFirst(rows, subset) ==
    IF rows = <<>> THEN <<>>
    ELSE IF \E j \in 1..(Len(rows) - 1) : SameKey(rows[j], rows[Len(rows)], subset)
         THEN DropDuplicatesFirst(SubSeq(rows, 1, Len(rows) - 1), subset)
    ELSE DropDuplicatesFirst(SubSeq(rows, 1, Len(rows) - 1), subset) \o <<rows[Len(rows)]>>

\* Mutant: drop_duplicates() without subset, only rows equal in every
\* column count as duplicates.
RECURSIVE DropDuplicatesWholeRow(_, _)
DropDuplicatesWholeRow(rows, subset) ==
    IF rows = <<>> THEN <<>>
    ELSE IF \E j \in 2..Len(rows) : rows[j] = Head(rows)
         THEN DropDuplicatesWholeRow(Tail(rows), subset)
    ELSE <<Head(rows)>> \o DropDuplicatesWholeRow(Tail(rows), subset)

\* df.drop_duplicates(subset=..., keep="last"): a row stays when no later row
\* has its key; the rows that stay keep their order.
RECURSIVE DropDuplicatesLast(_, _)
DropDuplicatesLast(rows, subset) ==
    IF rows = <<>> THEN <<>>
    ELSE IF \E j \in 2..Len(rows) : SameKey(rows[j], Head(rows), subset)
         THEN DropDuplicatesLast(Tail(rows), subset)
    ELSE <<Head(rows)>> \o DropDuplicatesLast(Tail(rows), subset)

\* int(df["acertou"].sum())
RECURSIVE SumAcertou(_)
SumAcertou(rows) ==
    IF rows = <<>> THEN 0 ELSE Head(rows)["acertou"].n + SumAcertou(Tail(rows))

\* Row a sorts strictly before row b under the keys `by`, in priority order.
RECURSIVE RowLess(_, _, _)
RowLess(a, b, by) ==
    IF by = <<>> THEN FALSE
    ELSE IF a[Head(by)] # b[Head(by)] THEN StrLess(a[Head(by)].s, b[Head(by)].s)
    ELSE RowLess(a, b, Tail(by))

\* r put into the sorted rows after every row that does not sort after it.
RECURSIVE InsertSorted(_, _, _)
InsertSorted(sorted, r, by) ==
    IF sorted = <<>> THEN <<r>>
    ELSE IF RowLess(r, Head(sorted), by) THEN <<r>> \o sorted
    ELSE <<Head(sorted)>> \o InsertSorted(Tail(sorted), r, by)

\* Mutant: the table is returned unsorted.
SortValuesSkipped(rows, by) == rows

\* df.sort_values(by=[...]): ascending, rows with equal keys in their order
\* (several keys are sorted with a stable lexsort).
RECURSIVE SortValues(_, _)
SortValues(rows, by) ==
    IF rows = <<>> THEN <<>>
    ELSE InsertSorted(SortValues(SubSeq(rows, 1, Len(rows) - 1), by), rows[Len(rows)], by)

DedupKey == <<"aluno", "question_id">>

SortKey == <<"turma", "aluno", "bloco", "question_id">>

\* transform(df_raw): the curated table and the metrics.
Transform(df_raw) ==
    LET cleaned   == [i \in 1..Len(df_raw.rows) |-> CoerceAcertou(CleanRow(df_raw.rows[i]))]
        withAluno == DropEmptyAluno(cleaned)
        before    == Len(withAluno)
        deduped   == DropDuplicatesLast(withAluno, DedupKey)
        after     == Len(deduped)
    IN  [df |-> [columns |-> df_raw.columns, rows |-> SortValues(deduped, SortKey)],
         metrics |-> [linhas_raw |-> before,
                      linhas_curated |-> after,
                      duplicados_removidos |-> before - after,
                      total_acertos |-> SumAcertou(deduped)]]

\* ------------------------------------------------------ load, run_pipeline

\* open(path, "w"), after ensure_parent_dir: the file is created or truncated.
OpenTruncate(file) == ZeroByteFile

\* The bytes of `new` written from offset 0 of a file open for writing: they
\* replace what the file holds from its start, and what it holds beyond them
\* (written meanwhile through another handle) stays.  Lines are taken to be
\* of one length.
WriteFromStart(file, new) ==
    [exists |-> TRUE,
     header |-> new.header,
     lines |-> new.lines \o SubSeq(file.lines, Len(new.lines) + 1, Len(file.lines))]

\* Mutant: load opens the Curated Store for appending, and the rows follow
\* the lines it holds.
RunPipelineAppending(raw, curated) ==
    LET e == Extract(raw)
        t == Transform(e.df)
    IN  IF e.err # "none"
        THEN [err |-> e.err, df |-> EmptyFrame, metrics |-> <<>>, curated |-> curated]
        ELSE [err |-> "none", df |-> t.df, metrics |-> t.metrics,
              curated |-> [exists |-> TRUE, header |-> t.df.columns,
                           lines |-> curated.lines \o ToCsv(t.df).lines]]

\* run_pipeline(paths) as one uninterrupted call: what it returns and the
\* Curated Store it leaves, or the exception of extract.
RunPipeline(raw, curated) ==
    LET e == Extract(raw)
        t == Transform(e.df)
    IN  IF e.err # "none"
        THEN [err |-> e.err, df |-> EmptyFrame, metrics |-> <<>>, curated |-> curated]
        ELSE [err |-> "none", df |-> t.df, metrics |-> t.metrics,
              curated |-> WriteFromStart(OpenTruncate(curated), ToCsv(t.df))]

\* ------------------------------------------------------------ append_raw_row

\* pd.DataFrame([row], columns=REQUIRED_COLUMNS): one row of the ten columns,
\* a key the mapping lacks left missing.
NewFrame(row) ==
    [columns |-> REQUIRED_COLUMNS,
     rows |-> <<[c \in Range(REQUIRED_COLUMNS) |-> IF c \in DOMAIN row THEN row[c] ELSE NA]>>]

\* Mutant: the new row is put before the existing rows.
ConcatNewFirst(a, b) == [columns |-> a.columns, rows |-> b.rows \o a.rows]

\* Mutant: the existing rows are left out.
ConcatNewOnly(a, b) == [columns |-> a.columns, rows |-> b.rows]

\* pd.concat([df_existing, df_new], ignore_index=True), both of the ten columns.
Concat(a, b) == [columns |-> a.columns, rows |-> a.rows \o b.rows]

\* append_raw_row(paths, row) as one uninterrupted call: the Raw Store it
\* leaves, or the exception of extract.
AppendRawRow(raw, row) ==
    LET e == Extract(raw)
    IN  IF e.err # "none" THEN [err |-> e.err, raw |-> raw]
        ELSE [err |-> "none",
              raw |-> WriteFromStart(OpenTruncate(raw), ToCsv(Concat(e.df, NewFrame(row))))]

\* ------------------------------------------------- single-call specifications

Procs == {1, 2}

NoOut == [err |-> "unset"]

SysInit ==
    /\ pc = [p \in Procs |-> "idle"]
    /\ arg = [p \in Procs |-> <<>>]
    /\ buf = [p \in Procs |-> <<>>]
    /\ ret = [p \in Procs |-> NoOut]
    /\ log = <<>>
    /\ done = 0
    /\ overlap = FALSE
    /\ seen = {}
    /\ calls = 0

RECURSIVE SeqsUpTo(_, _)
SeqsUpTo(S, n) ==
    IF n = 0 THEN {<<>>}
    ELSE LET shorter == SeqsUpTo(S, n - 1)
         IN  shorter \cup {Append(q, x) : q \in {r \in shorter : Len(r) = n - 1}, x \in S}

\* A data line of the ten fields, of which four vary.
MkLine(turma, aluno, question_id, acertou) ==
    <<(<<"1">>), turma, aluno, <<"b">>, question_id, <<"x">>, <<"x">>, <<"a">>,
      <<"a">>, acertou>>

\* The same line cut before its last field, acertou.
ShortLine(line) == SubSeq(line, 1, Len(line) - 1)

\* Two submissions' worth of the fields that are no part of the key: the
\* turma and the acertou of a line.
PayloadVals == {<<(<<"a">>), (<<"1">>)>>, <<(<<"b", " ">>), (<<"0">>)>>}

AlunoVals == {<<" ">>, <<"a">>, <<" ", "a">>, <<"b">>}

QuestionVals == {<<"1">>, <<"2">>}

PipelineLines ==
    {MkLine(p[1], a, q, p[2]) : p \in PayloadVals, a \in AlunoVals, q \in QuestionVals}

RawFileOf(lines) ==
    IF lines = <<>> THEN AbsentFile
    ELSE [exists |-> TRUE, header |-> REQUIRED_COLUMNS, lines |-> lines]

\* One run_pipeline call on a Raw Store drawn from the bounded set: no
\* file, a header without data lines, or a header and data lines.
InitPipeline ==
    /\ SysInit
    /\ rawFile \in {RawFileOf(ls) : ls \in SeqsUpTo(PipelineLines, MaxRows)}
                     \cup {[exists |-> TRUE, header |-> REQUIRED_COLUMNS, lines |-> <<>>]}
    /\ curatedFile = AbsentFile
    /\ phase = "input"
    /\ out = NoOut

PipelineCall ==
    /\ phase = "input"
    /\ phase' = "done"
    /\ out' = RunPipeline(rawFile, curatedFile)
    /\ curatedFile' = out'.curated
    /\ UNCHANGED <<rawFile, sysVars>>

SpecPipeline == InitPipeline /\ [][PipelineCall]_vars

\* The same call on Raw Stores whose acertou fields are well-formed,
\* out of range, malformed, empty or missing.
CoerceAcertouVals == {<<"0">>, <<"1">>, <<"2">>, <<"1", "0">>, <<"x">>, <<>>}

CoerceLines ==
    LET full == {MkLine(<<"a">>, <<"a">>, q, c) : q \in QuestionVals, c \in CoerceAcertouVals}
    IN  full \cup {ShortLine(MkLine(<<"a">>, <<"a">>, q, <<>>)) : q \in QuestionVals}

InitCoerce ==
    /\ SysInit
    /\ rawFile \in {RawFileOf(ls) : ls \in SeqsUpTo(CoerceLines, MaxRows)}
    /\ curatedFile = AbsentFile
    /\ phase = "input"
    /\ out = NoOut

SpecCoerce == InitCoerce /\ [][PipelineCall]_vars

\* One extract call on a file drawn from the bounded set: no file, a
\* zero-byte file, or a header over some of the columns of DiskOrder (an
\* older schema, an extra column, another column order) with data lines.
DiskOrder == <<"acertou", "extra", "aluno", "turma">>

RECURSIVE Keep(_, _)
Keep(q, S) ==
    IF q = <<>> THEN <<>>
    ELSE IF Head(q) \in S THEN <<Head(q)>> \o Keep(Tail(q), S)
    ELSE Keep(Tail(q), S)

DiskHeaders ==
    {Keep(DiskOrder, S) : S \in SUBSET Range(DiskOrder)}
        \cup {REQUIRED_COLUMNS, <<"extra">> \o REQUIRED_COLUMNS}

FieldSeeds == {<<>>, <<"a">>, <<" ", "b">>}

\* The field of a line under column number j: empty, or the line's seed and
\* the column number.
DiskField(seed, j) == IF seed = <<>> THEN <<>> ELSE seed \o <<Digits[(j % 10) + 1]>>

\* The data lines under a header: whole, or cut before the last field.
DiskLines(header) ==
    {[j \in 1..n |-> DiskField(seed, j)] :
        seed \in FieldSeeds, n \in {m \in {Len(header) - 1, Len(header)} : m >= 1}}

DiskFiles ==
    {AbsentFile}
        \cup {[exists |-> TRUE, header |-> h, lines |-> ls] :
                 h \in {<<>>}, ls \in {<<>>}}
        \cup UNION {{[exists |-> TRUE, header |-> h, lines |-> ls] :
                        ls \in SeqsUpTo(DiskLines(h), MaxRows)} : h \in DiskHeaders \ {<<>>}}

InitExtract ==
    /\ SysInit
    /\ rawFile \in DiskFiles
    /\ curatedFile = AbsentFile
    /\ phase = "input"
    /\ out = NoOut

ExtractCall ==
    /\ phase = "input"
    /\ phase' = "done"
    /\ out' = Extract(rawFile)
    /\ UNCHANGED <<rawFile, curatedFile, sysVars>>

SpecExtract == InitExtract /\ [][ExtractCall]_vars

\* ------------------------------------------------- the sessions of the app

\* A row as app.py hands it to append_raw_row: text fields and the integer
\* acertou; aluno and acertou vary.
MkRow(aluno, acertou) ==
    [c \in Range(REQUIRED_COLUMNS) |->
        CASE c = "aluno" -> Str(aluno)
          [] c = "acertou" -> IntCell(acertou)
          [] c = "question_id" -> Str(<<"1">>)
          [] OTHER -> Str(<<"a">>)]

RowSet == {MkRow(<<"a">>, 1), MkRow(<<"a">>, 0), MkRow(<<"b">>, 1), MkRow(<<" ">>, 0)}

Init ==
    /\ SysInit
    /\ rawFile = AbsentFile
    /\ curatedFile = AbsentFile
    /\ phase = "system"
    /\ out = NoOut

Busy(p) == \E q \in Procs \ {p} : pc[q] # "idle"

\* A session calls append_raw_row(PATHS, row).
AppendCall(p, row) ==
    /\ pc[p] = "idle"
    /\ calls < MaxCalls
    /\ pc' = [pc EXCEPT ![p] = "append_extract"]
    /\ arg' = [arg EXCEPT ![p] = row]
    /\ log' = Append(log, row)
    /\ calls' = calls + 1
    /\ overlap' = (overlap \/ Busy(p))
    /\ UNCHANGED <<rawFile, curatedFile, buf, ret, done, seen, phase, out>>

\* df_existing = extract(paths.raw_csv); df_out = pd.concat(...): the bytes
\* to write are ready, or extract raised and so does the call.
AppendExtract(p) ==
    /\ pc[p] = "append_extract"
    /\ LET e == Extract(rawFile)
       IN  IF e.err # "none"
           THEN /\ pc' = [pc EXCEPT ![p] = "idle"]
                /\ ret' = [ret EXCEPT ![p] = [err |-> e.err]]
                /\ arg' = [arg EXCEPT ![p] = <<>>]
                /\ buf' = buf
           ELSE /\ pc' = [pc EXCEPT ![p] = "append_open"]
                /\ buf' = [buf EXCEPT ![p] = ToCsv(Concat(e.df, NewFrame(arg[p])))]
                /\ arg' = [arg EXCEPT ![p] = <<>>]
                /\ ret' = ret
    /\ UNCHANGED <<rawFile, curatedFile, log, done, overlap, seen, calls, phase, out>>

\* df_out.to_csv(paths.raw_csv, index=False) opens the Raw Store for writing.
AppendOpen(p) ==
    /\ pc[p] = "append_open"
    /\ rawFile' = OpenTruncate(rawFile)
    /\ pc' = [pc EXCEPT ![p] = "append_write"]
    /\ UNCHANGED <<curatedFile, arg, buf, ret, log, done, overlap, seen, calls, phase, out>>

\* to_csv writes the bytes and closes the file; append_raw_row returns.
AppendWrite(p) ==
    /\ pc[p] = "append_write"
    /\ rawFile' = WriteFromStart(rawFile, buf[p])
    /\ pc' = [pc EXCEPT ![p] = "idle"]
    /\ ret' = [ret EXCEPT ![p] = [err |-> "none"]]
    /\ buf' = [buf EXCEPT ![p] = <<>>]
    /\ done' = done + 1
    /\ UNCHANGED <<curatedFile, arg, log, overlap, seen, calls, phase, out>>

\* A session calls run_pipeline(PATHS).
RunCall(p) ==
    /\ pc[p] = "idle"
    /\ calls < MaxCalls
    /\ pc' = [pc EXCEPT ![p] = "run_extract"]
    /\ calls' = calls + 1
    /\ overlap' = (overlap \/ Busy(p))
    /\ UNCHANGED <<rawFile, curatedFile, arg, buf, ret, log, done, seen, phase, out>>

\* df_raw = extract(paths.raw_csv); df_curated, metrics = transform(df_raw),
\* or extract raised and so does the call.
RunExtract(p) ==
    /\ pc[p] = "run_extract"
    /\ LET e == Extract(rawFile)
       IN  IF e.err # "none"
           THEN /\ pc' = [pc EXCEPT ![p] = "idle"]
                /\ ret' = [ret EXCEPT ![p] = [err |-> e.err]]
                /\ seen' = seen \cup {[input |-> rawFile, prior |-> curatedFile,
                                        ovl |-> overlap, output |-> curatedFile,
                                        ret |-> [err |-> e.err]]}
                /\ buf' = buf
           ELSE /\ pc' = [pc EXCEPT ![p] = "load_open"]
                /\ buf' = [buf EXCEPT ![p] = [input |-> rawFile, prior |-> AbsentFile,
                                              t |-> Transform(e.df)]]
                /\ UNCHANGED <<ret, seen>>
    /\ UNCHANGED <<rawFile, curatedFile, arg, log, done, overlap, calls, phase, out>>

\* load: ensure_parent_dir, then to_csv opens the Curated Store for writing.
LoadOpen(p) ==
    /\ pc[p] = "load_open"
    /\ curatedFile' = OpenTruncate(curatedFile)
    /\ buf' = [buf EXCEPT ![p].prior = curatedFile]
    /\ pc' = [pc EXCEPT ![p] = "load_write"]
    /\ UNCHANGED <<rawFile, arg, ret, log, done, overlap, seen, calls, phase, out>>

\* to_csv writes the curated table and closes the file; run_pipeline returns
\* (df_curated, metrics).
LoadWrite(p) ==
    /\ pc[p] = "load_write"
    /\ curatedFile' = WriteFromStart(curatedFile, ToCsv(buf[p].t.df))
    /\ pc' = [pc EXCEPT ![p] = "idle"]
    /\ ret' = [ret EXCEPT ![p] = [err |-> "none"]]
    /\ seen' = seen \cup {[input |-> buf[p].input, prior |-> buf[p].prior,
                            ovl |-> overlap, output |-> curatedFile',
                            ret |-> [err |-> "none", df |-> buf[p].t.df,
                                     metrics |-> buf[p].t.metrics]]}
    /\ buf' = [buf EXCEPT ![p] = <<>>]
    /\ UNCHANGED <<rawFile, arg, log, done, overlap, calls, phase, out>>

Next ==
    \E p \in Procs :
        \/ \E row \in RowSet : AppendCall(p, row)
        \/ AppendExtract(p)
        \/ AppendOpen(p)
        \/ AppendWrite(p)
        \/ RunCall(p)
        \/ RunExtract(p)
        \/ LoadOpen(p)
        \/ LoadWrite(p)

Spec == Init /\ [][Next]_vars

\* ------------------------------------------------ calls one after the other

InitSeq ==
    /\ SysInit
    /\ rawFile = AbsentFile
    /\ curatedFile = AbsentFile
    /\ phase = "calls"
    /\ out = NoOut

\* append_raw_row(paths, row), from call to return.
SeqAppend(row) ==
    /\ calls < MaxSeqCalls
    /\ LET r == AppendRawRow(rawFile, row)
       IN  /\ rawFile' = r.raw
           /\ out' = [err |-> r.err]
           /\ done' = IF r.err = "none" THEN done + 1 ELSE done
    /\ log' = Append(log, row)
    /\ calls' = calls + 1
    /\ UNCHANGED <<curatedFile, pc, arg, buf, ret, overlap, seen, phase>>

\* run_pipeline(paths), from call to return.
SeqRun ==
    /\ calls < MaxSeqCalls
    /\ LET r == RunPipeline(rawFile, curatedFile)
       IN  /\ curatedFile' = r.curated
           /\ out' = [err |-> r.err]
           /\ seen' = seen \cup {[input |-> rawFile, prior |-> curatedFile,
                                   ovl |-> FALSE, output |-> r.curated,
                                   ret |-> [err |-> r.err, df |-> r.df,
                                            metrics |-> r.metrics]]}
    /\ calls' = calls + 1
    /\ UNCHANGED <<rawFile, pc, arg, buf, ret, log, done, overlap, phase>>

NextSeq == (\E row \in RowSet : SeqAppend(row)) \/ SeqRun

SpecSeq == InitSeq /\ [][NextSeq]_vars

\* -------------------------------------------- what the claims are stated with

\* s without its leading and trailing blanks, stated by positions.
TrimOf(s) ==
    LET idx == {i \in 1..Len(s) : s[i] # " "}
    IN  IF idx = {} THEN <<>>
        ELSE SubSeq(s, CHOOSE i \in idx : \A j \in idx : i <= j,
                       CHOOSE i \in idx : \A j \in idx : j <= i)

RECURSIVE Pow10(_)
Pow10(k) == IF k = 0 THEN 1 ELSE 10 * Pow10(k - 1)

RECURSIVE SumOver(_, _)
SumOver(S, f) ==
    IF S = {} THEN 0 ELSE LET x == CHOOSE y \in S : TRUE IN f[x] + SumOver(S \ {x}, f)

\* The integer an acertou field stands for: its decimal value, 0 when it is
\* empty or no number.
NumberOf(s) ==
    IF s # <<>> /\ \A i \in 1..Len(s) : s[i] \in Range(Digits)
    THEN SumOver(1..Len(s), [i \in 1..Len(s) |-> DigitVal(s[i]) * Pow10(Len(s) - i)])
    ELSE 0

\* The field of a raw line under a column; a field the line lacks is empty.
FieldOf(line, col) ==
    LET i == CHOOSE k \in 1..Len(REQUIRED_COLUMNS) : REQUIRED_COLUMNS[k] = col
    IN  IF i <= Len(line) THEN line[i] ELSE <<>>

RawKey(line) == <<TrimOf(FieldOf(line, "aluno")), TrimOf(FieldOf(line, "question_id"))>>

RowKey(row) == <<row["aluno"].s, row["question_id"].s>>

\* The raw lines whose trimmed aluno is not empty.
Counted == {i \in 1..Len(rawFile.lines) : RawKey(rawFile.lines[i])[1] # <<>>}

\* Line i is the last raw line of its key.
IsLastOfKey(i) ==
    /\ i \in Counted
    /\ \A j \in Counted : RawKey(rawFile.lines[j]) = RawKey(rawFile.lines[i]) => j <= i

\* A curated row is a raw line after the trim and the acertou coercion.
RowIsLine(row, line) ==
    /\ \A c \in Range(StripColumns) : row[c] = Str(TrimOf(FieldOf(line, c)))
    /\ row["timestamp"] = Str(FieldOf(line, "timestamp"))
    /\ row["acertou"] = IntCell(NumberOf(FieldOf(line, "acertou")))

\* a sorts before b as text, stated by the first position where they differ.
TextBefore(a, b) ==
    \E k \in 1..(Len(b)) :
        /\ k <= Len(a) + 1
        /\ \A i \in 1..(k - 1) : a[i] = b[i]
        /\ k = Len(a) + 1 \/ CharCode(a[k]) < CharCode(b[k])

\* Tuple a does not sort after tuple b, key by key.
TupleNotAfter(a, b) ==
    \/ a = b
    \/ \E k \in 1..Len(a) : (\A i \in 1..(k - 1) : a[i] = b[i]) /\ TextBefore(a[k], b[k])

SortTuple(row) == <<row["turma"].s, row["aluno"].s, row["bloco"].s, row["question_id"].s>>

LineSortTuple(line) == <<line[2], line[3], line[4], line[5]>>

\* The text of a row handed to append_raw_row, field by field.
LineOfRow(row) ==
    [j \in 1..Len(REQUIRED_COLUMNS) |->
        LET c == row[REQUIRED_COLUMNS[j]]
        IN  IF c.k = "int" THEN <<Digits[c.n + 1]>> ELSE c.s]

HeaderOnlyFile == [exists |-> TRUE, header |-> REQUIRED_COLUMNS, lines |-> <<>>]

ZeroMetrics ==
    [linhas_raw |-> 0, linhas_curated |-> 0, duplicados_removidos |-> 0, total_acertos |-> 0]

AllIdle == \A p \in Procs : pc[p] = "idle"

\* ------------------------------------------------------------------- claims

\* C1: after run_pipeline, for every key (aluno, question_id) with a
\* non-empty trimmed aluno that occurs in the raw rows, the curated table
\* returned holds exactly one row with that key, and that row is the last
\* raw row of the key after the trim and the acertou coercion; the Curated
\* Store written holds that row's text on exactly one line.
C1_DedupKeepsLast ==
    phase = "done" =>
        \A i \in Counted :
            IsLastOfKey(i) =>
                LET hits == {k \in 1..Len(out.df.rows) :
                                RowKey(out.df.rows[k]) = RawKey(rawFile.lines[i])}
                IN  /\ Cardinality(hits) = 1
                    /\ \A k \in hits :
                          /\ RowIsLine(out.df.rows[k], rawFile.lines[i])
                          /\ curatedFile.lines[k][3] = RawKey(rawFile.lines[i])[1]
                          /\ curatedFile.lines[k][5] = RawKey(rawFile.lines[i])[2]
                          /\ curatedFile.lines[k][10]
                                = <<Digits[NumberOf(FieldOf(rawFile.lines[i], "acertou")) + 1]>>
                    /\ Cardinality({k \in 1..Len(curatedFile.lines) :
                            <<curatedFile.lines[k][3], curatedFile.lines[k][5]>>
                                = RawKey(rawFile.lines[i])}) = 1

\* C1 witness: the same key (written with and without blanks) answered 1,
\* then another key, then the first key again answered 0, and the one
\* curated row of the key says 0.
C1_Witness ==
    /\ phase = "done"
    /\ Len(rawFile.lines) = 3
    /\ RawKey(rawFile.lines[1]) = RawKey(rawFile.lines[3])
    /\ RawKey(rawFile.lines[1]) # RawKey(rawFile.lines[2])
    /\ rawFile.lines[1][3] # rawFile.lines[3][3]
    /\ rawFile.lines[1][10] = <<"1">>
    /\ rawFile.lines[3][10] = <<"0">>
    /\ Len(out.df.rows) = 2
    /\ \E k \in 1..2 : /\ RowKey(out.df.rows[k]) = RawKey(rawFile.lines[1])
                        /\ out.df.rows[k]["acertou"] = IntCell(0)

\* C2: the metrics satisfy linhas_raw - linhas_curated = duplicados_removidos,
\* linhas_raw is the number of raw rows whose trimmed aluno is not empty and
\* linhas_curated is the number of rows of the curated table returned.
C2_MetricConsistency ==
    phase = "done" =>
        /\ out.metrics.linhas_raw - out.metrics.linhas_curated
              = out.metrics.duplicados_removidos
        /\ out.metrics.linhas_raw = Cardinality(Counted)
        /\ out.metrics.linhas_curated = Len(out.df.rows)

\* C2 witness: three raw rows, one with a blank aluno and two of one key:
\* linhas_raw 2, linhas_curated 1, duplicados_removidos 1.
C2_Witness ==
    /\ phase = "done"
    /\ Len(rawFile.lines) = 3
    /\ Cardinality(Counted) = 2
    /\ out.metrics = [linhas_raw |-> 2, linhas_curated |-> 1,
                      duplicados_removidos |-> 1, total_acertos |-> 1]

\* C3 as claimed: for every raw input, total_acertos <= linhas_curated.
C3_AcertosAtMostRows ==
    phase = "done" => out.metrics.total_acertos <= out.metrics.linhas_curated

\* C6: the curated table returned and the Curated Store written are
\* non-decreasing under (turma, aluno, bloco, question_id), and hold exactly
\* the rows that survived the deduplication: one per key, each the last raw
\* row of its key.
C6_SortOrder ==
    phase = "done" =>
        /\ \A k \in 1..(Len(out.df.rows) - 1) :
              TupleNotAfter(SortTuple(out.df.rows[k]), SortTuple(out.df.rows[k + 1]))
        /\ Len(curatedFile.lines) = Len(out.df.rows)
        /\ \A k \in 1..(Len(curatedFile.lines) - 1) :
              TupleNotAfter(LineSortTuple(curatedFile.lines[k]),
                            LineSortTuple(curatedFile.lines[k + 1]))
        /\ Len(out.df.rows) = Cardinality({i \in Counted : IsLastOfKey(i)})
        /\ \A k \in 1..Len(out.df.rows) :
              \E i \in Counted : IsLastOfKey(i) /\ RowIsLine(out.df.rows[k], rawFile.lines[i])

\* C6 witness: three surviving rows that the raw order holds in descending
\* order of their sort tuples.
C6_Witness ==
    /\ phase = "done"
    /\ Len(rawFile.lines) = 3
    /\ Len(out.df.rows) = 3
    /\ RowIsLine(out.df.rows[1], rawFile.lines[3])
    /\ RowIsLine(out.df.rows[2], rawFile.lines[2])
    /\ RowIsLine(out.df.rows[3], rawFile.lines[1])
    /\ out.df.rows[1]["turma"] # out.df.rows[3]["turma"]
    /\ out.df.rows[1]["aluno"] # out.df.rows[2]["aluno"]

C4_CuratedIsFunctionOfRaw ==
    \A a \in seen : \A b \in seen :
        a.input = b.input => (a.output = b.output /\ a.ret = b.ret)

\* C4 witness: a run over a Raw Store with rows that found the Curated Store
\* of an earlier, empty Raw Store, and a second run over the unchanged Raw
\* Store that found the Curated Store the first had written.
C4_Witness ==
    \E a \in seen : \E b \in seen :
        /\ a.input = b.input
        /\ Len(a.input.lines) >= 1
        /\ Len(a.output.lines) >= 1
        /\ a.prior = HeaderOnlyFile
        /\ b.prior = a.output
        /\ curatedFile = a.output

\* C5: after any sequence of calls, a Curated Store that exists holds no
\* line whose aluno is empty or blank and no two lines of one
\* (aluno, question_id).
C5_CuratedKeysUnique ==
    curatedFile.exists =>
        /\ \A k \in 1..Len(curatedFile.lines) : TrimOf(curatedFile.lines[k][3]) # <<>>
        /\ \A k \in 1..Len(curatedFile.lines) : \A m \in 1..Len(curatedFile.lines) :
              (curatedFile.lines[k][3] = curatedFile.lines[m][3]
                 /\ curatedFile.lines[k][5] = curatedFile.lines[m][5]) => k = m

\* C5 witness: the Raw Store holds a line of blank aluno and two lines of
\* one key that differ, and the Curated Store written from it holds one line.
C5_Witness ==
    /\ Len(rawFile.lines) = 3
    /\ \E i \in 1..3 : TrimOf(rawFile.lines[i][3]) = <<>>
    /\ \E i \in 1..3 : \E j \in 1..3 :
          /\ i # j
          /\ rawFile.lines[i] # rawFile.lines[j]
          /\ RawKey(rawFile.lines[i]) = RawKey(rawFile.lines[j])
          /\ RawKey(rawFile.lines[i])[1] # <<>>
    /\ curatedFile.exists
    /\ Len(curatedFile.lines) = 1
    /\ \E o \in seen : o.input = rawFile /\ o.output = curatedFile

\* C7: with calls made one after the other from a Raw Store that does not
\* exist, the Raw Store always holds exactly the rows appended, in call
\* order, under the ten-column header (no file before the first append);
\* so each append adds its row as the one new last line and run_pipeline
\* leaves the Raw Store as it is.
C7_RawStoreIsLog ==
    /\ done = Len(log)
    /\ log = <<>> => rawFile = AbsentFile
    /\ log # <<>> =>
          /\ rawFile.exists
          /\ rawFile.header = REQUIRED_COLUMNS
          /\ Len(rawFile.lines) = Len(log)
          /\ \A i \in 1..Len(log) : rawFile.lines[i] = LineOfRow(log[i])

\* C7 witness: three different rows appended and a run_pipeline call among
\* the four calls, and the Raw Store holds the three rows in call order.
C7_Witness ==
    /\ phase = "calls"
    /\ calls = 4
    /\ Len(log) = 3
    /\ log[1] # log[2] /\ log[2] # log[3] /\ log[1] # log[3]
    /\ seen # {}
    /\ rawFile.lines = <<LineOfRow(log[1]), LineOfRow(log[2]), LineOfRow(log[3])>>

\* C8: run_pipeline on a Raw Store that is missing, or that holds the header
\* and no data line, ends without error, returns an empty table of the ten
\* columns and metrics all zero, and writes a Curated Store of the header
\* alone; extract of the missing file is the empty ten-column table.
C8_MissingStoreIsEmpty ==
    (phase = "done" /\ (~rawFile.exists \/ rawFile = HeaderOnlyFile)) =>
        /\ Extract(rawFile) = [err |-> "none",
                               df |-> [columns |-> REQUIRED_COLUMNS, rows |-> <<>>]]
        /\ out.err = "none"
        /\ out.df = [columns |-> REQUIRED_COLUMNS, rows |-> <<>>]
        /\ out.metrics = ZeroMetrics
        /\ curatedFile = HeaderOnlyFile

\* C8 witness: run_pipeline has returned on a Raw Store that does not exist
\* and the Curated Store now exists.
C8_Witness ==
    /\ phase = "done"
    /\ ~rawFile.exists
    /\ out.err = "none"
    /\ curatedFile.exists

\* C10: when no two calls were ever in progress at once and all have
\* ended, the Raw Store holds as many rows as append_raw_row calls returned;
\* fewer rows than returned appends is a state only overlapping calls reach.
C10_LostUpdateNeedsOverlap ==
    AllIdle => (/\ ~overlap => Len(rawFile.lines) = done
                /\ Len(rawFile.lines) < done => overlap)

\* C10 witness: two append_raw_row calls that overlapped have both
\* returned, and the Raw Store holds one row, the row of one of them.
C10_Witness ==
    /\ phase = "system"
    /\ AllIdle
    /\ overlap
    /\ calls = 2
    /\ done = 2
    /\ Len(log) = 2
    /\ log[1] # log[2]
    /\ \A p \in Procs : ret[p].err = "none"
    /\ Len(rawFile.lines) = 1
    /\ rawFile.lines[1] \in {LineOfRow(log[1]), LineOfRow(log[2])}

====
